---- MODULE Spec2Model ----
(***************************************************************************)
(* Model of ContosoSearchPlugin (src/Python/src/plugins/                   *)
(* ContosoSearchPlugin.py): one query_handbook call and the three remote   *)
(* services it talks to (embedding, document search, chat completion).     *)
(*                                                                         *)
(* A Python str is the sequence of its Unicode code points (the string     *)
(* "ab" is <<97, 98>>), so that `in`, lower(), split('.'), strip() and     *)
(* join() are computed, not assumed, on every string Python can hold.      *)
(* Dictionary keys and the opaque filter expressions stay TLA+ strings.    *)
(* An optional value (None, an unbound local, "no exception") is the empty *)
(* sequence; a present value v is <<v>>.                                   *)
(***************************************************************************)
EXTENDS Integers, Sequences, FiniteSets, TLC

\* ---------------------------------------------------------------- bounds
MaxQueryWords == 2
MaxHits == 2
MaxContentLen == 7

\* ------------------------------------------------------ string primitives
\* str.strip() without an argument removes the code points str.isspace()
\* accepts: \t \n \x0b \x0c \r, \x1c-\x1f, the blank, U+0085, U+00A0,
\* U+1680, U+2000-U+200A, U+2028, U+2029, U+202F, U+205F, U+3000
Whitespace ==
  (9..13) \cup (28..32) \cup {133, 160, 5760} \cup (8192..8202)
    \cup {8232, 8233, 8239, 8287, 12288}

\* str.lower(): the one-to-one lower-case mappings above ASCII of the Unicode
\* database CPython 3.11 carries (14.0), as runs <<first, last, step, delta>>:
\* each of first, first + step, ..., last maps to itself plus delta
LowerRuns ==
  << <<192, 214, 1, 32>>, <<216, 222, 1, 32>>, <<256, 302, 2, 1>>,
     <<306, 310, 2, 1>>, <<313, 327, 2, 1>>, <<330, 374, 2, 1>>,
     <<376, 376, 1, -121>>, <<377, 381, 2, 1>>, <<385, 385, 1, 210>>,
     <<386, 388, 2, 1>>, <<390, 390, 1, 206>>, <<391, 391, 1, 1>>,
     <<393, 394, 1, 205>>, <<395, 395, 1, 1>>, <<398, 398, 1, 79>>,
     <<399, 399, 1, 202>>, <<400, 400, 1, 203>>, <<401, 401, 1, 1>>,
     <<403, 403, 1, 205>>, <<404, 404, 1, 207>>, <<406, 406, 1, 211>>,
     <<407, 407, 1, 209>>, <<408, 408, 1, 1>>, <<412, 412, 1, 211>>,
     <<413, 413, 1, 213>>, <<415, 415, 1, 214>>, <<416, 420, 2, 1>>,
     <<422, 422, 1, 218>>, <<423, 423, 1, 1>>, <<425, 425, 1, 218>>,
     <<428, 428, 1, 1>>, <<430, 430, 1, 218>>, <<431, 431, 1, 1>>,
     <<433, 434, 1, 217>>, <<435, 437, 2, 1>>, <<439, 439, 1, 219>>,
     <<440, 440, 1, 1>>, <<444, 444, 1, 1>>, <<452, 452, 1, 2>>,
     <<453, 453, 1, 1>>, <<455, 455, 1, 2>>, <<456, 456, 1, 1>>,
     <<458, 458, 1, 2>>, <<459, 475, 2, 1>>, <<478, 494, 2, 1>>,
     <<497, 497, 1, 2>>, <<498, 500, 2, 1>>, <<502, 502, 1, -97>>,
     <<503, 503, 1, -56>>, <<504, 542, 2, 1>>, <<544, 544, 1, -130>>,
     <<546, 562, 2, 1>>, <<570, 570, 1, 10795>>, <<571, 571, 1, 1>>,
     <<573, 573, 1, -163>>, <<574, 574, 1, 10792>>, <<577, 577, 1, 1>>,
     <<579, 579, 1, -195>>, <<580, 580, 1, 69>>, <<581, 581, 1, 71>>,
     <<582, 590, 2, 1>>, <<880, 882, 2, 1>>, <<886, 886, 1, 1>>,
     <<895, 895, 1, 116>>, <<902, 902, 1, 38>>, <<904, 906, 1, 37>>,
     <<908, 908, 1, 64>>, <<910, 911, 1, 63>>, <<913, 929, 1, 32>>,
     <<932, 939, 1, 32>>, <<975, 975, 1, 8>>, <<984, 1006, 2, 1>>,
     <<1012, 1012, 1, -60>>, <<1015, 1015, 1, 1>>, <<1017, 1017, 1, -7>>,
     <<1018, 1018, 1, 1>>, <<1021, 1023, 1, -130>>, <<1024, 1039, 1, 80>>,
     <<1040, 1071, 1, 32>>, <<1120, 1152, 2, 1>>, <<1162, 1214, 2, 1>>,
     <<1216, 1216, 1, 15>>, <<1217, 1229, 2, 1>>, <<1232, 1326, 2, 1>>,
     <<1329, 1366, 1, 48>>, <<4256, 4293, 1, 7264>>, <<4295, 4295, 1, 7264>>,
     <<4301, 4301, 1, 7264>>, <<5024, 5103, 1, 38864>>, <<5104, 5109, 1, 8>>,
     <<7312, 7354, 1, -3008>>, <<7357, 7359, 1, -3008>>, <<7680, 7828, 2, 1>>,
     <<7838, 7838, 1, -7615>>, <<7840, 7934, 2, 1>>, <<7944, 7951, 1, -8>>,
     <<7960, 7965, 1, -8>>, <<7976, 7983, 1, -8>>, <<7992, 7999, 1, -8>>,
     <<8008, 8013, 1, -8>>, <<8025, 8031, 2, -8>>, <<8040, 8047, 1, -8>>,
     <<8072, 8079, 1, -8>>, <<8088, 8095, 1, -8>>, <<8104, 8111, 1, -8>>,
     <<8120, 8121, 1, -8>>, <<8122, 8123, 1, -74>>, <<8124, 8124, 1, -9>>,
     <<8136, 8139, 1, -86>>, <<8140, 8140, 1, -9>>, <<8152, 8153, 1, -8>>,
     <<8154, 8155, 1, -100>>, <<8168, 8169, 1, -8>>, <<8170, 8171, 1, -112>>,
     <<8172, 8172, 1, -7>>, <<8184, 8185, 1, -128>>, <<8186, 8187, 1, -126>>,
     <<8188, 8188, 1, -9>>, <<8486, 8486, 1, -7517>>, <<8490, 8490, 1, -8383>>,
     <<8491, 8491, 1, -8262>>, <<8498, 8498, 1, 28>>, <<8544, 8559, 1, 16>>,
     <<8579, 8579, 1, 1>>, <<9398, 9423, 1, 26>>, <<11264, 11311, 1, 48>>,
     <<11360, 11360, 1, 1>>, <<11362, 11362, 1, -10743>>,
     <<11363, 11363, 1, -3814>>, <<11364, 11364, 1, -10727>>,
     <<11367, 11371, 2, 1>>, <<11373, 11373, 1, -10780>>,
     <<11374, 11374, 1, -10749>>, <<11375, 11375, 1, -10783>>,
     <<11376, 11376, 1, -10782>>, <<11378, 11378, 1, 1>>,
     <<11381, 11381, 1, 1>>, <<11390, 11391, 1, -10815>>,
     <<11392, 11490, 2, 1>>, <<11499, 11501, 2, 1>>, <<11506, 11506, 1, 1>>,
     <<42560, 42604, 2, 1>>, <<42624, 42650, 2, 1>>, <<42786, 42798, 2, 1>>,
     <<42802, 42862, 2, 1>>, <<42873, 42875, 2, 1>>,
     <<42877, 42877, 1, -35332>>, <<42878, 42886, 2, 1>>,
     <<42891, 42891, 1, 1>>, <<42893, 42893, 1, -42280>>,
     <<42896, 42898, 2, 1>>, <<42902, 42920, 2, 1>>,
     <<42922, 42922, 1, -42308>>, <<42923, 42923, 1, -42319>>,
     <<42924, 42924, 1, -42315>>, <<42925, 42925, 1, -42305>>,
     <<42926, 42926, 1, -42308>>, <<42928, 42928, 1, -42258>>,
     <<42929, 42929, 1, -42282>>, <<42930, 42930, 1, -42261>>,
     <<42931, 42931, 1, 928>>, <<42932, 42946, 2, 1>>,
     <<42948, 42948, 1, -48>>, <<42949, 42949, 1, -42307>>,
     <<42950, 42950, 1, -35384>>, <<42951, 42953, 2, 1>>,
     <<42960, 42960, 1, 1>>, <<42966, 42968, 2, 1>>, <<42997, 42997, 1, 1>>,
     <<65313, 65338, 1, 32>>, <<66560, 66599, 1, 40>>, <<66736, 66771, 1, 40>>,
     <<66928, 66938, 1, 39>>, <<66940, 66954, 1, 39>>, <<66956, 66962, 1, 39>>,
     <<66964, 66965, 1, 39>>, <<68736, 68786, 1, 64>>, <<71840, 71871, 1, 32>>,
     <<93760, 93791, 1, 32>>, <<125184, 125217, 1, 34>> >>

\* str.lower(), the Greek capital sigma: the code points the final-sigma rule
\* skips (Case_Ignorable) and those it looks for (Cased), as <<first, last>>
CaseIgnorableRanges ==
  << <<39, 39>>, <<46, 46>>, <<58, 58>>, <<94, 94>>, <<96, 96>>, <<168, 168>>,
     <<173, 173>>, <<175, 175>>, <<180, 180>>, <<183, 184>>, <<688, 879>>,
     <<884, 885>>, <<890, 890>>, <<900, 901>>, <<903, 903>>, <<1155, 1161>>,
     <<1369, 1369>>, <<1375, 1375>>, <<1425, 1469>>, <<1471, 1471>>,
     <<1473, 1474>>, <<1476, 1477>>, <<1479, 1479>>, <<1524, 1524>>,
     <<1536, 1541>>, <<1552, 1562>>, <<1564, 1564>>, <<1600, 1600>>,
     <<1611, 1631>>, <<1648, 1648>>, <<1750, 1757>>, <<1759, 1768>>,
     <<1770, 1773>>, <<1807, 1807>>, <<1809, 1809>>, <<1840, 1866>>,
     <<1958, 1968>>, <<2027, 2037>>, <<2042, 2042>>, <<2045, 2045>>,
     <<2070, 2093>>, <<2137, 2139>>, <<2184, 2184>>, <<2192, 2193>>,
     <<2200, 2207>>, <<2249, 2306>>, <<2362, 2362>>, <<2364, 2364>>,
     <<2369, 2376>>, <<2381, 2381>>, <<2385, 2391>>, <<2402, 2403>>,
     <<2417, 2417>>, <<2433, 2433>>, <<2492, 2492>>, <<2497, 2500>>,
     <<2509, 2509>>, <<2530, 2531>>, <<2558, 2558>>, <<2561, 2562>>,
     <<2620, 2620>>, <<2625, 2626>>, <<2631, 2632>>, <<2635, 2637>>,
     <<2641, 2641>>, <<2672, 2673>>, <<2677, 2677>>, <<2689, 2690>>,
     <<2748, 2748>>, <<2753, 2757>>, <<2759, 2760>>, <<2765, 2765>>,
     <<2786, 2787>>, <<2810, 2815>>, <<2817, 2817>>, <<2876, 2876>>,
     <<2879, 2879>>, <<2881, 2884>>, <<2893, 2893>>, <<2901, 2902>>,
     <<2914, 2915>>, <<2946, 2946>>, <<3008, 3008>>, <<3021, 3021>>,
     <<3072, 3072>>, <<3076, 3076>>, <<3132, 3132>>, <<3134, 3136>>,
     <<3142, 3144>>, <<3146, 3149>>, <<3157, 3158>>, <<3170, 3171>>,
     <<3201, 3201>>, <<3260, 3260>>, <<3263, 3263>>, <<3270, 3270>>,
     <<3276, 3277>>, <<3298, 3299>>, <<3328, 3329>>, <<3387, 3388>>,
     <<3393, 3396>>, <<3405, 3405>>, <<3426, 3427>>, <<3457, 3457>>,
     <<3530, 3530>>, <<3538, 3540>>, <<3542, 3542>>, <<3633, 3633>>,
     <<3636, 3642>>, <<3654, 3662>>, <<3761, 3761>>, <<3764, 3772>>,
     <<3782, 3782>>, <<3784, 3789>>, <<3864, 3865>>, <<3893, 3893>>,
     <<3895, 3895>>, <<3897, 3897>>, <<3953, 3966>>, <<3968, 3972>>,
     <<3974, 3975>>, <<3981, 3991>>, <<3993, 4028>>, <<4038, 4038>>,
     <<4141, 4144>>, <<4146, 4151>>, <<4153, 4154>>, <<4157, 4158>>,
     <<4184, 4185>>, <<4190, 4192>>, <<4209, 4212>>, <<4226, 4226>>,
     <<4229, 4230>>, <<4237, 4237>>, <<4253, 4253>>, <<4348, 4348>>,
     <<4957, 4959>>, <<5906, 5908>>, <<5938, 5939>>, <<5970, 5971>>,
     <<6002, 6003>>, <<6068, 6069>>, <<6071, 6077>>, <<6086, 6086>>,
     <<6089, 6099>>, <<6103, 6103>>, <<6109, 6109>>, <<6155, 6159>>,
     <<6211, 6211>>, <<6277, 6278>>, <<6313, 6313>>, <<6432, 6434>>,
     <<6439, 6440>>, <<6450, 6450>>, <<6457, 6459>>, <<6679, 6680>>,
     <<6683, 6683>>, <<6742, 6742>>, <<6744, 6750>>, <<6752, 6752>>,
     <<6754, 6754>>, <<6757, 6764>>, <<6771, 6780>>, <<6783, 6783>>,
     <<6823, 6823>>, <<6832, 6862>>, <<6912, 6915>>, <<6964, 6964>>,
     <<6966, 6970>>, <<6972, 6972>>, <<6978, 6978>>, <<7019, 7027>>,
     <<7040, 7041>>, <<7074, 7077>>, <<7080, 7081>>, <<7083, 7085>>,
     <<7142, 7142>>, <<7144, 7145>>, <<7149, 7149>>, <<7151, 7153>>,
     <<7212, 7219>>, <<7222, 7223>>, <<7288, 7293>>, <<7376, 7378>>,
     <<7380, 7392>>, <<7394, 7400>>, <<7405, 7405>>, <<7412, 7412>>,
     <<7416, 7417>>, <<7468, 7530>>, <<7544, 7544>>, <<7579, 7679>>,
     <<8125, 8125>>, <<8127, 8129>>, <<8141, 8143>>, <<8157, 8159>>,
     <<8173, 8175>>, <<8189, 8190>>, <<8203, 8207>>, <<8216, 8217>>,
     <<8228, 8228>>, <<8231, 8231>>, <<8234, 8238>>, <<8288, 8292>>,
     <<8294, 8303>>, <<8305, 8305>>, <<8319, 8319>>, <<8336, 8348>>,
     <<8400, 8432>>, <<11388, 11389>>, <<11503, 11505>>, <<11631, 11631>>,
     <<11647, 11647>>, <<11744, 11775>>, <<11823, 11823>>, <<12293, 12293>>,
     <<12330, 12333>>, <<12337, 12341>>, <<12347, 12347>>, <<12441, 12446>>,
     <<12540, 12542>>, <<40981, 40981>>, <<42232, 42237>>, <<42508, 42508>>,
     <<42607, 42610>>, <<42612, 42621>>, <<42623, 42623>>, <<42652, 42655>>,
     <<42736, 42737>>, <<42752, 42785>>, <<42864, 42864>>, <<42888, 42890>>,
     <<42994, 42996>>, <<43000, 43001>>, <<43010, 43010>>, <<43014, 43014>>,
     <<43019, 43019>>, <<43045, 43046>>, <<43052, 43052>>, <<43204, 43205>>,
     <<43232, 43249>>, <<43263, 43263>>, <<43302, 43309>>, <<43335, 43345>>,
     <<43392, 43394>>, <<43443, 43443>>, <<43446, 43449>>, <<43452, 43453>>,
     <<43471, 43471>>, <<43493, 43494>>, <<43561, 43566>>, <<43569, 43570>>,
     <<43573, 43574>>, <<43587, 43587>>, <<43596, 43596>>, <<43632, 43632>>,
     <<43644, 43644>>, <<43696, 43696>>, <<43698, 43700>>, <<43703, 43704>>,
     <<43710, 43711>>, <<43713, 43713>>, <<43741, 43741>>, <<43756, 43757>>,
     <<43763, 43764>>, <<43766, 43766>>, <<43867, 43871>>, <<43881, 43883>>,
     <<44005, 44005>>, <<44008, 44008>>, <<44013, 44013>>, <<64286, 64286>>,
     <<64434, 64450>>, <<65024, 65039>>, <<65043, 65043>>, <<65056, 65071>>,
     <<65106, 65106>>, <<65109, 65109>>, <<65279, 65279>>, <<65287, 65287>>,
     <<65294, 65294>>, <<65306, 65306>>, <<65342, 65342>>, <<65344, 65344>>,
     <<65392, 65392>>, <<65438, 65439>>, <<65507, 65507>>, <<65529, 65531>>,
     <<66045, 66045>>, <<66272, 66272>>, <<66422, 66426>>, <<67456, 67461>>,
     <<67463, 67504>>, <<67506, 67514>>, <<68097, 68099>>, <<68101, 68102>>,
     <<68108, 68111>>, <<68152, 68154>>, <<68159, 68159>>, <<68325, 68326>>,
     <<68900, 68903>>, <<69291, 69292>>, <<69446, 69456>>, <<69506, 69509>>,
     <<69633, 69633>>, <<69688, 69702>>, <<69744, 69744>>, <<69747, 69748>>,
     <<69759, 69761>>, <<69811, 69814>>, <<69817, 69818>>, <<69821, 69821>>,
     <<69826, 69826>>, <<69837, 69837>>, <<69888, 69890>>, <<69927, 69931>>,
     <<69933, 69940>>, <<70003, 70003>>, <<70016, 70017>>, <<70070, 70078>>,
     <<70089, 70092>>, <<70095, 70095>>, <<70191, 70193>>, <<70196, 70196>>,
     <<70198, 70199>>, <<70206, 70206>>, <<70367, 70367>>, <<70371, 70378>>,
     <<70400, 70401>>, <<70459, 70460>>, <<70464, 70464>>, <<70502, 70508>>,
     <<70512, 70516>>, <<70712, 70719>>, <<70722, 70724>>, <<70726, 70726>>,
     <<70750, 70750>>, <<70835, 70840>>, <<70842, 70842>>, <<70847, 70848>>,
     <<70850, 70851>>, <<71090, 71093>>, <<71100, 71101>>, <<71103, 71104>>,
     <<71132, 71133>>, <<71219, 71226>>, <<71229, 71229>>, <<71231, 71232>>,
     <<71339, 71339>>, <<71341, 71341>>, <<71344, 71349>>, <<71351, 71351>>,
     <<71453, 71455>>, <<71458, 71461>>, <<71463, 71467>>, <<71727, 71735>>,
     <<71737, 71738>>, <<71995, 71996>>, <<71998, 71998>>, <<72003, 72003>>,
     <<72148, 72151>>, <<72154, 72155>>, <<72160, 72160>>, <<72193, 72202>>,
     <<72243, 72248>>, <<72251, 72254>>, <<72263, 72263>>, <<72273, 72278>>,
     <<72281, 72283>>, <<72330, 72342>>, <<72344, 72345>>, <<72752, 72758>>,
     <<72760, 72765>>, <<72767, 72767>>, <<72850, 72871>>, <<72874, 72880>>,
     <<72882, 72883>>, <<72885, 72886>>, <<73009, 73014>>, <<73018, 73018>>,
     <<73020, 73021>>, <<73023, 73029>>, <<73031, 73031>>, <<73104, 73105>>,
     <<73109, 73109>>, <<73111, 73111>>, <<73459, 73460>>, <<78896, 78904>>,
     <<92912, 92916>>, <<92976, 92982>>, <<92992, 92995>>, <<94031, 94031>>,
     <<94095, 94111>>, <<94176, 94177>>, <<94179, 94180>>, <<110576, 110579>>,
     <<110581, 110587>>, <<110589, 110590>>, <<113821, 113822>>,
     <<113824, 113827>>, <<118528, 118573>>, <<118576, 118598>>,
     <<119143, 119145>>, <<119155, 119170>>, <<119173, 119179>>,
     <<119210, 119213>>, <<119362, 119364>>, <<121344, 121398>>,
     <<121403, 121452>>, <<121461, 121461>>, <<121476, 121476>>,
     <<121499, 121503>>, <<121505, 121519>>, <<122880, 122886>>,
     <<122888, 122904>>, <<122907, 122913>>, <<122915, 122916>>,
     <<122918, 122922>>, <<123184, 123197>>, <<123566, 123566>>,
     <<123628, 123631>>, <<125136, 125142>>, <<125252, 125259>>,
     <<127995, 127999>>, <<917505, 917505>>, <<917536, 917631>>,
     <<917760, 917999>> >>

CasedRanges ==
  << <<65, 90>>, <<97, 122>>, <<170, 170>>, <<181, 181>>, <<186, 186>>,
     <<192, 214>>, <<216, 246>>, <<248, 442>>, <<444, 447>>, <<452, 659>>,
     <<661, 696>>, <<704, 705>>, <<736, 740>>, <<837, 837>>, <<880, 883>>,
     <<886, 887>>, <<890, 893>>, <<895, 895>>, <<902, 902>>, <<904, 906>>,
     <<908, 908>>, <<910, 929>>, <<931, 1013>>, <<1015, 1153>>, <<1162, 1327>>,
     <<1329, 1366>>, <<1376, 1416>>, <<4256, 4293>>, <<4295, 4295>>,
     <<4301, 4301>>, <<4304, 4346>>, <<4349, 4351>>, <<5024, 5109>>,
     <<5112, 5117>>, <<7296, 7304>>, <<7312, 7354>>, <<7357, 7359>>,
     <<7424, 7615>>, <<7680, 7957>>, <<7960, 7965>>, <<7968, 8005>>,
     <<8008, 8013>>, <<8016, 8023>>, <<8025, 8025>>, <<8027, 8027>>,
     <<8029, 8029>>, <<8031, 8061>>, <<8064, 8116>>, <<8118, 8124>>,
     <<8126, 8126>>, <<8130, 8132>>, <<8134, 8140>>, <<8144, 8147>>,
     <<8150, 8155>>, <<8160, 8172>>, <<8178, 8180>>, <<8182, 8188>>,
     <<8305, 8305>>, <<8319, 8319>>, <<8336, 8348>>, <<8450, 8450>>,
     <<8455, 8455>>, <<8458, 8467>>, <<8469, 8469>>, <<8473, 8477>>,
     <<8484, 8484>>, <<8486, 8486>>, <<8488, 8488>>, <<8490, 8493>>,
     <<8495, 8500>>, <<8505, 8505>>, <<8508, 8511>>, <<8517, 8521>>,
     <<8526, 8526>>, <<8544, 8575>>, <<8579, 8580>>, <<9398, 9449>>,
     <<11264, 11492>>, <<11499, 11502>>, <<11506, 11507>>, <<11520, 11557>>,
     <<11559, 11559>>, <<11565, 11565>>, <<42560, 42605>>, <<42624, 42653>>,
     <<42786, 42887>>, <<42891, 42894>>, <<42896, 42954>>, <<42960, 42961>>,
     <<42963, 42963>>, <<42965, 42969>>, <<42997, 42998>>, <<43000, 43002>>,
     <<43824, 43866>>, <<43868, 43880>>, <<43888, 43967>>, <<64256, 64262>>,
     <<64275, 64279>>, <<65313, 65338>>, <<65345, 65370>>, <<66560, 66639>>,
     <<66736, 66771>>, <<66776, 66811>>, <<66928, 66938>>, <<66940, 66954>>,
     <<66956, 66962>>, <<66964, 66965>>, <<66967, 66977>>, <<66979, 66993>>,
     <<66995, 67001>>, <<67003, 67004>>, <<67456, 67456>>, <<67459, 67461>>,
     <<67463, 67504>>, <<67506, 67514>>, <<68736, 68786>>, <<68800, 68850>>,
     <<71840, 71903>>, <<93760, 93823>>, <<119808, 119892>>,
     <<119894, 119964>>, <<119966, 119967>>, <<119970, 119970>>,
     <<119973, 119974>>, <<119977, 119980>>, <<119982, 119993>>,
     <<119995, 119995>>, <<119997, 120003>>, <<120005, 120069>>,
     <<120071, 120074>>, <<120077, 120084>>, <<120086, 120092>>,
     <<120094, 120121>>, <<120123, 120126>>, <<120128, 120132>>,
     <<120134, 120134>>, <<120138, 120144>>, <<120146, 120485>>,
     <<120488, 120512>>, <<120514, 120538>>, <<120540, 120570>>,
     <<120572, 120596>>, <<120598, 120628>>, <<120630, 120654>>,
     <<120656, 120686>>, <<120688, 120712>>, <<120714, 120744>>,
     <<120746, 120770>>, <<120772, 120779>>, <<122624, 122633>>,
     <<122635, 122654>>, <<125184, 125251>>, <<127280, 127305>>,
     <<127312, 127337>>, <<127344, 127369>> >>

InRun(c, run) == run[1] <= c /\ c <= run[2] /\ (c - run[1]) % run[3] = 0
InRanges(c, ranges) ==
  \E i \in 1..Len(ranges) : ranges[i][1] <= c /\ c <= ranges[i][2]
CaseIgnorable(c) == InRanges(c, CaseIgnorableRanges)
Cased(c) == InRanges(c, CasedRanges)

\* str.lower() on a code point with a one-to-one mapping
LowerChar(c) ==
  \* IF c < 128 THEN (IF 'A' <= c /\ c <= 'Z' THEN c + 32 ELSE c)
  IF c < 128 THEN (IF 65 <= c /\ c <= 90 THEN c + 32 ELSE c)
  ELSE IF \E i \in 1..Len(LowerRuns) : InRun(c, LowerRuns[i])
  THEN c + LowerRuns[CHOOSE i \in 1..Len(LowerRuns) : InRun(c, LowerRuns[i])][4]
  ELSE c

\* str.lower(), capital sigma at position i: it becomes the final sigma when
\* the nearest code point before it that is not case-ignorable is cased and
\* the nearest such code point after it, if any, is not
FinalSigma(s, i) ==
  LET before == { j \in 1..(i - 1) : ~CaseIgnorable(s[j]) }
      after == { j \in (i + 1)..Len(s) : ~CaseIgnorable(s[j]) }
  IN /\ before # {}
     /\ Cased(s[CHOOSE j \in before : \A k \in before : k <= j])
     /\ after = {} \/ ~Cased(s[CHOOSE j \in after : \A k \in after : j <= k])

\* str.lower(), position i: capital sigma (U+03A3) by its context, capital I
\* with dot above (U+0130) to i followed by a combining dot, the rest by
\* the one-to-one mapping
LowerAt(s, i) ==
  IF s[i] = 931 THEN << IF FinalSigma(s, i) THEN 962 ELSE 963 >>
  ELSE IF s[i] = 304 THEN <<105, 775>>
  ELSE << LowerChar(s[i]) >>

\* sep.join(parts)
RECURSIVE Join(_, _)
Join(parts, sep) ==
  IF parts = <<>> THEN <<>>
  ELSE IF Len(parts) = 1 THEN parts[1]
  ELSE parts[1] \o sep \o Join(Tail(parts), sep)

\* str.lower(): code point by code point when neither of the two special
\* code points occurs, else the concatenation of the pieces
Lower(s) ==
  IF \A i \in 1..Len(s) : s[i] \notin {304, 931}
  THEN [i \in 1..Len(s) |-> LowerChar(s[i])]
  ELSE Join([i \in 1..Len(s) |-> LowerAt(s, i)], <<>>)

\* `sub in s` (both arguments are evaluated once, by binding them)
Contains(sub, s) ==
  \E u \in {sub}, t \in {s} :
    \E i \in 0..(Len(t) - Len(u)) : \A k \in 1..Len(u) : t[i + k] = u[k]

\* any(keyword in s for keyword in keywords), keywords a sequence of strings
AnyIn(keywords, s) == \E j \in 1..Len(keywords) : Contains(keywords[j], s)

\* s.startswith(p)
StartsWith(s, p) == Len(s) >= Len(p) /\ SubSeq(s, 1, Len(p)) = p

\* str.strip(): drop leading and trailing whitespace
Strip(s) ==
  LET kept == { i \in 1..Len(s) : s[i] \notin Whitespace } IN
  IF kept = {} THEN <<>>
  ELSE SubSeq(s, CHOOSE i \in kept : \A j \in kept : i <= j,
                 CHOOSE i \in kept : \A j \in kept : i >= j)

\* str.split(sep) for a one-character separator: count(sep)+1 pieces, the
\* k-th piece lying between the (k-1)-th and the k-th separator
Split(s, sep) ==
  LET seps == { i \in 1..Len(s) : s[i] = sep }
      n == Cardinality(seps) + 1
      SepPos(k) ==
        IF k = 0 THEN 0
        ELSE IF k = n THEN Len(s) + 1
        ELSE CHOOSE i \in seps : Cardinality({ j \in seps : j < i }) = k - 1
  IN [k \in 1..n |-> SubSeq(s, SepPos(k - 1) + 1, SepPos(k) - 1)]

\* str(n) for a natural number
RECURSIVE IntToStr(_)
IntToStr(n) ==
  \* IF n < 10 THEN << '0' + n >>
  IF n < 10 THEN << 48 + n >>
  \* ELSE IntToStr(n \div 10) \o << '0' + (n % 10) >>
  ELSE IntToStr(n \div 10) \o << 48 + (n % 10) >>

\* ------------------------------------------------------ program literals
\* query_handbook: "No relevant information found in the Contoso Handbook."
NoInfoMessage == <<78, 111, 32, 114, 101, 108, 101, 118, 97, 110, 116, 32, 105, 110, 102,
       111, 114, 109, 97, 116, 105, 111, 110, 32, 102, 111, 117, 110, 100,
       32, 105, 110, 32, 116, 104, 101, 32, 67, 111, 110, 116, 111, 115, 111,
       32, 72, 97, 110, 100, 98, 111, 111, 107, 46>>
\* query_handbook: "Error querying the Contoso Handbook: "
ErrorPrefix == <<69, 114, 114, 111, 114, 32, 113, 117, 101, 114, 121, 105, 110, 103,
       32, 116, 104, 101, 32, 67, 111, 110, 116, 111, 115, 111, 32, 72, 97,
       110, 100, 98, 111, 111, 107, 58, 32>>
\* search_documents: "Search failed: "
SearchFailedPrefix == <<83, 101, 97, 114, 99, 104, 32, 102, 97, 105, 108, 101, 100, 58, 32>>
\* generate_embedding: "Failed to generate embedding: "
EmbeddingFailedPrefix == <<70, 97, 105, 108, 101, 100, 32, 116, 111, 32, 103, 101, 110, 101, 114,
       97, 116, 101, 32, 101, 109, 98, 101, 100, 100, 105, 110, 103, 58, 32>>
\* generate_embedding: "Input text cannot be empty"
EmptyTextMessage == <<73, 110, 112, 117, 116, 32, 116, 101, 120, 116, 32, 99, 97, 110, 110,
       111, 116, 32, 98, 101, 32, 101, 109, 112, 116, 121>>
\* result.get('content', 'No content available')
NoContentAvailable == <<78, 111, 32, 99, 111, 110, 116, 101, 110, 116, 32, 97, 118, 97, 105,
       108, 97, 98, 108, 101>>
\* "\n\n**Sources:**\n"
SourcesHeading == <<10, 10, 42, 42, 83, 111, 117, 114, 99, 101, 115, 58, 42, 42, 10>>
\* "- Employee Handbook Section "
SectionPrefix == <<45, 32, 69, 109, 112, 108, 111, 121, 101, 101, 32, 72, 97, 110, 100,
       98, 111, 111, 107, 32, 83, 101, 99, 116, 105, 111, 110, 32>>

\* the five response headers and the generic one
\* "**Contoso Data Security Policy Information:**\n\n"
HeaderDataSecurity == <<42, 42, 67, 111, 110, 116, 111, 115, 111, 32, 68, 97, 116, 97, 32, 83,
       101, 99, 117, 114, 105, 116, 121, 32, 80, 111, 108, 105, 99, 121, 32,
       73, 110, 102, 111, 114, 109, 97, 116, 105, 111, 110, 58, 42, 42, 10,
       10>>
\* "**Contoso Vacation and Time Off Policy:**\n\n"
HeaderVacation == <<42, 42, 67, 111, 110, 116, 111, 115, 111, 32, 86, 97, 99, 97, 116,
       105, 111, 110, 32, 97, 110, 100, 32, 84, 105, 109, 101, 32, 79, 102,
       102, 32, 80, 111, 108, 105, 99, 121, 58, 42, 42, 10, 10>>
\* "**Contoso Confidentiality Guidelines:**\n\n"
HeaderConfidentiality == <<42, 42, 67, 111, 110, 116, 111, 115, 111, 32, 67, 111, 110, 102, 105,
       100, 101, 110, 116, 105, 97, 108, 105, 116, 121, 32, 71, 117, 105,
       100, 101, 108, 105, 110, 101, 115, 58, 42, 42, 10, 10>>
\* "**Contoso Remote Work Policy:**\n\n"
HeaderRemoteWork == <<42, 42, 67, 111, 110, 116, 111, 115, 111, 32, 82, 101, 109, 111, 116,
       101, 32, 87, 111, 114, 107, 32, 80, 111, 108, 105, 99, 121, 58, 42,
       42, 10, 10>>
\* "**Contoso Employee Benefits:**\n\n"
HeaderBenefits == <<42, 42, 67, 111, 110, 116, 111, 115, 111, 32, 69, 109, 112, 108, 111,
       121, 101, 101, 32, 66, 101, 110, 101, 102, 105, 116, 115, 58, 42, 42,
       10, 10>>
\* "**Information from Contoso Employee Handbook regarding '{query}':**\n\n"
GenericHeader(q) ==
  \* "**Information from Contoso Employee Handbook regarding '" \o q
  <<42, 42, 73, 110, 102, 111, 114, 109, 97, 116, 105, 111, 110, 32, 102,
       114, 111, 109, 32, 67, 111, 110, 116, 111, 115, 111, 32, 69, 109, 112,
       108, 111, 121, 101, 101, 32, 72, 97, 110, 100, 98, 111, 111, 107, 32,
       114, 101, 103, 97, 114, 100, 105, 110, 103, 32, 39>> \o q
    \* \o "':**\n\n"
    \o <<39, 58, 42, 42, 10, 10>>

\* the keyword groups of the header selection, in the order the code tests them
\* ['data security', 'security policy', 'information security']
DataSecurityGroup ==
  \* << "data security", "security policy", "information security" >>
  << <<100, 97, 116, 97, 32, 115, 101, 99, 117, 114, 105, 116, 121>>, <<115, 101, 99, 117, 114, 105, 116, 121, 32, 112, 111, 108, 105, 99, 121>>, <<105, 110, 102, 111, 114, 109, 97, 116, 105, 111, 110, 32, 115, 101,
       99, 117, 114, 105, 116, 121>> >>
\* ['vacation', 'pto', 'time off', 'leave']
VacationGroup == << <<118, 97, 99, 97, 116, 105, 111, 110>>, <<112, 116, 111>>, <<116, 105, 109, 101, 32, 111, 102, 102>>, <<108, 101, 97, 118, 101>> >>
\* ['confidential', 'confidentiality']
ConfidentialityGroup == << <<99, 111, 110, 102, 105, 100, 101, 110, 116, 105, 97, 108>>, <<99, 111, 110, 102, 105, 100, 101, 110, 116, 105, 97, 108, 105, 116,
       121>> >>
\* ['remote work', 'work from home', 'telework']
RemoteWorkGroup == << <<114, 101, 109, 111, 116, 101, 32, 119, 111, 114, 107>>, <<119, 111, 114, 107, 32, 102, 114, 111, 109, 32, 104, 111, 109, 101>>, <<116, 101, 108, 101, 119, 111, 114, 107>> >>
\* ['benefits', 'health', 'insurance']
BenefitsGroup == << <<98, 101, 110, 101, 102, 105, 116, 115>>, <<104, 101, 97, 108, 116, 104>>, <<105, 110, 115, 117, 114, 97, 110, 99, 101>> >>

\* the keywords that switch on sentence extraction in the per-result loop
\* 'data security' in query_lower or 'security policy' in query_lower
SecurityNarrowTriggers == << <<100, 97, 116, 97, 32, 115, 101, 99, 117, 114, 105, 116, 121>>, <<115, 101, 99, 117, 114, 105, 116, 121, 32, 112, 111, 108, 105, 99, 121>> >>
\* 'vacation' in query_lower or 'pto' in query_lower
VacationNarrowTriggers == << <<118, 97, 99, 97, 116, 105, 111, 110>>, <<112, 116, 111>> >>

\* the keyword lists handed to extract_relevant_sentences
\* ['password', 'encryption', 'access', 'confidential', 'protect', 'secure',
\*  'data handling', 'classification']
security_keywords ==
  \* << "password", "encryption", "access", "confidential",
  << <<112, 97, 115, 115, 119, 111, 114, 100>>, <<101, 110, 99, 114, 121, 112, 116, 105, 111, 110>>, <<97, 99, 99, 101, 115, 115>>, <<99, 111, 110, 102, 105, 100, 101, 110, 116, 105, 97, 108>>,
     \* "protect", "secure", "data handling", "classification" >>
     <<112, 114, 111, 116, 101, 99, 116>>, <<115, 101, 99, 117, 114, 101>>, <<100, 97, 116, 97, 32, 104, 97, 110, 100, 108, 105, 110, 103>>, <<99, 108, 97, 115, 115, 105, 102, 105, 99, 97, 116, 105, 111, 110>> >>
\* ['days', 'hours', 'request', 'approval', 'accrual', 'balance', 'holiday']
vacation_keywords ==
  \* << "days", "hours", "request", "approval", "accrual",
  << <<100, 97, 121, 115>>, <<104, 111, 117, 114, 115>>, <<114, 101, 113, 117, 101, 115, 116>>, <<97, 112, 112, 114, 111, 118, 97, 108>>, <<97, 99, 99, 114, 117, 97, 108>>,
     \* "balance", "holiday" >>
     <<98, 97, 108, 97, 110, 99, 101>>, <<104, 111, 108, 105, 100, 97, 121>> >>

\* search_documents: the server-side filter expressions (opaque to the client)
SecurityFilter ==
  "search.ismatch('security OR data OR confidential OR privacy', 'content')"
VacationFilter ==
  "search.ismatch('vacation OR pto OR leave OR time off', 'content')"
PolicyFilter == "search.ismatch('policy OR guideline OR procedure', 'content')"
\* 'security' / 'data', 'vacation' / 'pto', 'policy' in query_lower
SecurityFilterTriggers == << <<115, 101, 99, 117, 114, 105, 116, 121>>, <<100, 97, 116, 97>> >>
\* VacationFilterTriggers == << "vacation", "pto" >>
VacationFilterTriggers == << <<118, 97, 99, 97, 116, 105, 111, 110>>, <<112, 116, 111>> >>
\* PolicyFilterTriggers == << "policy" >>
PolicyFilterTriggers == << <<112, 111, 108, 105, 99, 121>> >>

\* the fields search_documents copies from a hit when present
FieldWhitelist ==
  {"chunk_id", "content", "title", "url", "filepath", "parent_id"}

\* query_handbook(query, top=3), search_documents(query, top=3)
DefaultTop == 3

\* ------------------------------------------------- pure parts of the code
\* variant of SelectHeader: the vacation test placed before data security
SelectHeaderVacationFirst(q) ==
  LET query_lower == Lower(q) IN
  IF AnyIn(VacationGroup, query_lower) THEN HeaderVacation
  ELSE IF AnyIn(DataSecurityGroup, query_lower) THEN HeaderDataSecurity
  ELSE IF AnyIn(ConfidentialityGroup, query_lower) THEN HeaderConfidentiality
  ELSE IF AnyIn(RemoteWorkGroup, query_lower) THEN HeaderRemoteWork
  ELSE IF AnyIn(BenefitsGroup, query_lower) THEN HeaderBenefits
  ELSE GenericHeader(q)

\* query_handbook, lines 194-208: the if/elif chain that picks the header
SelectHeader(q) ==
  LET query_lower == Lower(q) IN
  IF AnyIn(DataSecurityGroup, query_lower) THEN HeaderDataSecurity
  ELSE IF AnyIn(VacationGroup, query_lower) THEN HeaderVacation
  ELSE IF AnyIn(ConfidentialityGroup, query_lower) THEN HeaderConfidentiality
  ELSE IF AnyIn(RemoteWorkGroup, query_lower) THEN HeaderRemoteWork
  ELSE IF AnyIn(BenefitsGroup, query_lower) THEN HeaderBenefits
  ELSE GenericHeader(q)

\* search_documents, lines 123-132: the optional filter derived from the query
SelectFilter(q) ==
  LET query_lower == Lower(q) IN
  IF AnyIn(SecurityFilterTriggers, query_lower) THEN <<SecurityFilter>>
  ELSE IF AnyIn(VacationFilterTriggers, query_lower) THEN <<VacationFilter>>
  ELSE IF AnyIn(PolicyFilterTriggers, query_lower) THEN <<PolicyFilter>>
  ELSE <<>>

\* extract_relevant_sentences, lines 258-261: the stripped sentences that
\* contain a keyword, in order
RECURSIVE RelevantSentences(_, _)
RelevantSentences(sentences, keywords) ==
  IF sentences = <<>> THEN <<>>
  ELSE LET sentence == Strip(Head(sentences))
           rest == RelevantSentences(Tail(sentences), keywords)
       IN IF \E j \in 1..Len(keywords) :
                 Contains(Lower(keywords[j]), Lower(sentence))
          THEN <<sentence>> \o rest
          ELSE rest

\* variant of extract_relevant_sentences: the [:3] slice left out
extract_relevant_sentences_uncapped(content, keywords) ==
  \* LET relevant_sentences == RelevantSentences(Split(content, '.'), keywords)
  LET relevant_sentences == RelevantSentences(Split(content, 46), keywords)
  IN IF relevant_sentences # <<>>
     \* THEN Join(relevant_sentences, ". ") \o "."
     THEN Join(relevant_sentences, <<46, 32>>) \o <<46>>
     ELSE content

\* extract_relevant_sentences, lines 253-266
extract_relevant_sentences(content, keywords) ==
  \* LET relevant_sentences == RelevantSentences(Split(content, '.'), keywords)
  LET relevant_sentences == RelevantSentences(Split(content, 46), keywords)
  IN IF relevant_sentences # <<>>
     THEN Join(SubSeq(relevant_sentences, 1,
                      IF Len(relevant_sentences) < 3
                      THEN Len(relevant_sentences) ELSE 3),
               \* ". ") \o "."
               <<46, 32>>) \o <<46>>
     ELSE content

\* search_documents, lines 146-155: one hit of the service as a result dict
FormatResult(hit) ==
  [f \in {"score"} \cup (DOMAIN hit \cap FieldWhitelist) |->
     IF f = "score" THEN hit["@search.score"] ELSE hit[f]]

\* variant of FormatResults: each result inserted at the front of the list
FormatResultsFrontInsert(hits) ==
  [i \in 1..Len(hits) |-> FormatResult(hits[Len(hits) + 1 - i])]

\* search_documents, lines 144-157: the hits in the service's order
FormatResults(hits) == [i \in 1..Len(hits) |-> FormatResult(hits[i])]

\* variant of ContentBlock: extraction switched on by the header's keyword
\* groups instead of the loop's own two tests
ContentBlockByHeaderGroup(q, result) ==
  LET query_lower == Lower(q)
      content == IF "content" \in DOMAIN result THEN result["content"]
                 ELSE NoContentAvailable
  IN IF AnyIn(DataSecurityGroup, query_lower)
     THEN extract_relevant_sentences(content, security_keywords)
     ELSE IF AnyIn(VacationGroup, query_lower)
     THEN extract_relevant_sentences(content, vacation_keywords)
     ELSE content

\* query_handbook, lines 213-228: the content block of one result
ContentBlock(q, result) ==
  LET query_lower == Lower(q)
      content == IF "content" \in DOMAIN result THEN result["content"]
                 ELSE NoContentAvailable
  IN IF AnyIn(SecurityNarrowTriggers, query_lower)
     THEN LET relevant_sentences ==
                extract_relevant_sentences(content, security_keywords)
          IN IF relevant_sentences # <<>> THEN relevant_sentences ELSE content
     ELSE IF AnyIn(VacationNarrowTriggers, query_lower)
     THEN LET relevant_sentences ==
                extract_relevant_sentences(content, vacation_keywords)
          IN IF relevant_sentences # <<>> THEN relevant_sentences ELSE content
     ELSE content

\* query_handbook, lines 211-230: the content blocks of all results
AllContent(q, rs) == [i \in 1..Len(rs) |-> ContentBlock(q, rs[i])]

\* query_handbook, lines 241-246: the source line of the i-th result
SourceLine(result, i) ==
  IF "title" \in DOMAIN result /\ result["title"] # <<>>
  \* THEN "- " \o result["title"] \o "\n"
  THEN <<45, 32>> \o result["title"] \o <<10>>
  ELSE IF "url" \in DOMAIN result /\ result["url"] # <<>>
  \* THEN "- " \o result["url"] \o "\n"
  THEN <<45, 32>> \o result["url"] \o <<10>>
  \* ELSE SectionPrefix \o IntToStr(i) \o "\n"
  ELSE SectionPrefix \o IntToStr(i) \o <<10>>

\* query_handbook, lines 239-246: the Sources section
RECURSIVE SourceLinesFrom(_, _)
SourceLinesFrom(rs, i) ==
  IF i > Len(rs) THEN <<>>
  ELSE SourceLine(rs[i], i) \o SourceLinesFrom(rs, i + 1)
SourcesSection(rs) == SourcesHeading \o SourceLinesFrom(rs, 1)

\* ------------------------------------------------------------- inputs
\* phrases a query is made of; a query is up to MaxQueryWords of them joined
\* by single blanks ("" when none)
\* "data security", "Information Security", "laptop", "leave",
\* "confidential policy", "telework", "health", "hi"
QueryWords ==
  \* { "data security", "Information Security", "laptop", "leave",
  { <<100, 97, 116, 97, 32, 115, 101, 99, 117, 114, 105, 116, 121>>, <<73, 110, 102, 111, 114, 109, 97, 116, 105, 111, 110, 32, 83, 101, 99,
       117, 114, 105, 116, 121>>, <<108, 97, 112, 116, 111, 112>>, <<108, 101, 97, 118, 101>>,
    \* "confidential policy", "telework", "health", "hi" }
    <<99, 111, 110, 102, 105, 100, 101, 110, 116, 105, 97, 108, 32, 112,
       111, 108, 105, 99, 121>>, <<116, 101, 108, 101, 119, 111, 114, 107>>, <<104, 101, 97, 108, 116, 104>>, <<104, 105>> }
RECURSIVE QueriesOf(_)
QueriesOf(n) ==
  IF n = 0 THEN {<<>>}
  ELSE QueriesOf(n - 1) \cup QueryWords
       \* \cup { q \o " " \o w : q \in QueriesOf(n - 1) \ {<<>>},
       \cup { q \o <<32>> \o w : q \in QueriesOf(n - 1) \ {<<>>},
                                  w \in QueryWords }
Queries == QueriesOf(MaxQueryWords)

\* documents the search service may return (raw hits, keyed as the service
\* keys them; contentVector is a field outside the whitelist)
\* Doc1: title "Leave", content "Days off. PTO hours. Eat. Ask approval.
\* Holiday."; Doc2: empty title, url "http://h/2", content "Use a Password.
\* Lock it"; Doc3: neither content nor title nor url
Doc1 ==
  \* ("@search.score" :> 9) @@ ("chunk_id" :> "c1") @@ ("title" :> "Leave")
  ("@search.score" :> 9) @@ ("chunk_id" :> <<99, 49>>) @@ ("title" :> <<76, 101, 97, 118, 101>>)
  \* @@ ("content" :> "Days off. PTO hours. Eat. Ask approval. Holiday.")
  @@ ("content" :> <<68, 97, 121, 115, 32, 111, 102, 102, 46, 32, 80, 84, 79, 32, 104, 111,
       117, 114, 115, 46, 32, 69, 97, 116, 46, 32, 65, 115, 107, 32, 97, 112,
       112, 114, 111, 118, 97, 108, 46, 32, 72, 111, 108, 105, 100, 97, 121,
       46>>)
Doc2 ==
  \* ("@search.score" :> 5) @@ ("title" :> <<>>) @@ ("url" :> "http://h/2")
  ("@search.score" :> 5) @@ ("title" :> <<>>) @@ ("url" :> <<104, 116, 116, 112, 58, 47, 47, 104, 47, 50>>)
  \* @@ ("content" :> "Use a Password. Lock it") @@ ("contentVector" :> <<7>>)
  @@ ("content" :> <<85, 115, 101, 32, 97, 32, 80, 97, 115, 115, 119, 111, 114, 100, 46,
       32, 76, 111, 99, 107, 32, 105, 116>>) @@ ("contentVector" :> <<7>>)
\* Doc3 == ("@search.score" :> 1) @@ ("parent_id" :> "p3")
Doc3 == ("@search.score" :> 1) @@ ("parent_id" :> <<112, 51>>)
Docs == {Doc1, Doc2, Doc3}

\* values of the top argument: the default
Tops == {DefaultTop}

Min(a, b) == IF a < b THEN a ELSE b
RECURSIVE SeqsUpTo(_, _)
SeqsUpTo(S, n) ==
  IF n = 0 THEN {<<>>}
  ELSE SeqsUpTo(S, n - 1)
       \cup { Append(s, x) : s \in SeqsUpTo(S, n - 1), x \in S }
\* the service returns at most `top` hits, no document twice
HitLists(k) ==
  { h \in SeqsUpTo(Docs, Min(MaxHits, k)) :
      \A i, j \in 1..Len(h) : h[i] = h[j] => i = j }

\* outcomes of the POST to the embedding deployment: status, the "data" list
\* of the JSON body, and str() of the HTTPError an error status leads to
EmbedResponses ==
  { [status |-> 200,
     data |-> << [embedding |-> <<3, 4>>], [embedding |-> <<1, 2>>] >>,
     error |-> <<>>],
    [status |-> 200, data |-> <<>>, error |-> <<>>],
    \* [status |-> 503, data |-> <<>>, error |-> "503 Server Error"] }
    [status |-> 503, data |-> <<>>, error |-> <<53, 48, 51, 32, 83, 101, 114, 118, 101, 114, 32, 69, 114, 114, 111,
       114>>] }

\* outcomes of one SearchClient.search call
SearchResponses(top) ==
  { [ok |-> TRUE, hits |-> h, error |-> <<>>] : h \in HitLists(top) }
  \* \cup { [ok |-> FALSE, hits |-> <<>>, error |-> "Invalid filter"] }
  \cup { [ok |-> FALSE, hits |-> <<>>, error |-> <<73, 110, 118, 97, 108, 105, 100, 32, 102, 105, 108, 116, 101, 114>>] }

\* outcomes of the POST to the chat deployment: status, the contents of the
\* "choices" list, and str() of the HTTPError an error status leads to
ChatResponses ==
  \* { [status |-> 200, choices |-> << " Rephrased answer.\n" >>,
  { [status |-> 200, choices |-> << <<32, 82, 101, 112, 104, 114, 97, 115, 101, 100, 32, 97, 110, 115, 119,
       101, 114, 46, 10>> >>,
     error |-> <<>>],
    [status |-> 200, choices |-> <<>>, error |-> <<>>],
    \* [status |-> 500, choices |-> <<>>, error |-> "500 Server Error"] }
    [status |-> 500, choices |-> <<>>, error |-> <<53, 48, 48, 32, 83, 101, 114, 118, 101, 114, 32, 69, 114, 114, 111,
       114>>] }

\* str() of the UnboundLocalError for vector_query (CPython <= 3.10, >= 3.11)
UnboundLocalMessages ==
  \* { "local variable 'vector_query' referenced before assignment",
  { <<108, 111, 99, 97, 108, 32, 118, 97, 114, 105, 97, 98, 108, 101, 32,
       39, 118, 101, 99, 116, 111, 114, 95, 113, 117, 101, 114, 121, 39, 32,
       114, 101, 102, 101, 114, 101, 110, 99, 101, 100, 32, 98, 101, 102,
       111, 114, 101, 32, 97, 115, 115, 105, 103, 110, 109, 101, 110, 116>>,
    \* "cannot access local variable 'vector_query' where it is not associated with a value" }
    <<99, 97, 110, 110, 111, 116, 32, 97, 99, 99, 101, 115, 115, 32, 108,
       111, 99, 97, 108, 32, 118, 97, 114, 105, 97, 98, 108, 101, 32, 39,
       118, 101, 99, 116, 111, 114, 95, 113, 117, 101, 114, 121, 39, 32, 119,
       104, 101, 114, 101, 32, 105, 116, 32, 105, 115, 32, 110, 111, 116, 32,
       97, 115, 115, 111, 99, 105, 97, 116, 101, 100, 32, 119, 105, 116, 104,
       32, 97, 32, 118, 97, 108, 117, 101>> }

\* -------------------------------------------------------------- state
VARIABLES
  pc,               \* where the call is: idle, generate_embedding, search,
                    \* fallback, returned, rephrase, done (and the
                    \* extract_* positions of the stand-alone helper run)
  query,            \* the query argument
  top,              \* the top argument
  embedCalls,       \* POSTs sent to the embedding service
  embedResp,        \* optional: the embedding service's response
  geExc,            \* optional: the exception generate_embedding raised
  query_embedding,  \* optional: local of search_documents
  vector_query,     \* optional: local of search_documents (unbound = <<>>)
  search_filter,    \* optional: local of search_documents (None = <<>>)
  searchLog,        \* the arguments of the search calls issued, in order
  searchResps,      \* the search service's responses, in order
  e2,               \* optional: the exception caught in the fallback branch
  results,          \* optional: the list search_documents returned
  sdExc,            \* optional: the exception search_documents raised
  response,         \* optional: local of query_handbook, the header so far
  all_content,      \* local of query_handbook: the content blocks
  chatCalls,        \* POSTs sent to the chat service
  chatResp,         \* optional: the chat service's response
  ret,              \* optional: the string query_handbook returned
  raised,           \* optional: the exception query_handbook let escape
  exContent,        \* stand-alone extract_relevant_sentences: content
  exKeywords,       \* stand-alone extract_relevant_sentences: keywords
  exResult          \* optional: its return value

vars ==
  << pc, query, top, embedCalls, embedResp, geExc, query_embedding,
     vector_query, search_filter, searchLog, searchResps, e2, results, sdExc,
     response, all_content, chatCalls, chatResp, ret, raised, exContent, exKeywords, exResult >>

exVars == << exContent, exKeywords, exResult >>
embedVars == << embedCalls, embedResp, geExc, query_embedding >>
searchVars == << searchLog, searchResps, e2, results, sdExc >>
chatVars == << response, all_content, chatCalls, chatResp >>

Init ==
  /\ pc = "idle"
  /\ query = <<>>
  /\ top = DefaultTop
  /\ embedCalls = 0
  /\ embedResp = <<>>
  /\ geExc = <<>>
  /\ query_embedding = <<>>
  /\ vector_query = <<>>
  /\ search_filter = <<>>
  /\ searchLog = <<>>
  /\ searchResps = <<>>
  /\ e2 = <<>>
  /\ results = <<>>
  /\ sdExc = <<>>
  /\ response = <<>>
  /\ all_content = <<>>
  /\ chatCalls = 0
  /\ chatResp = <<>>
  /\ ret = <<>>
  /\ raised = <<>>
  /\ exContent = <<>>
  /\ exKeywords = <<>>
  /\ exResult = <<>>

\* ------------------------------------------------------------ operations
\* response.raise_for_status(): raises for the statuses 400 to 599 only
RaisesForStatus(status) == 400 <= status /\ status < 600

\* str() of the IndexError that [0] on an empty list raises:
\* "list index out of range"
IndexErrorMessage == <<108, 105, 115, 116, 32, 105, 110, 100, 101, 120, 32, 111, 117, 116,
       32, 111, 102, 32, 114, 97, 110, 103, 101>>

\* variant of EmbeddingOutcome: the last entry of "data" instead of the first
EmbeddingOutcomeLast(resp) ==
  IF RaisesForStatus(resp.status)
  THEN [value |-> <<>>,
        exc |-> << [type |-> "Exception",
                    msg |-> EmbeddingFailedPrefix \o resp.error] >>]
  ELSE IF resp.data = <<>>
  THEN [value |-> <<>>,
        exc |-> << [type |-> "Exception",
                    msg |-> EmbeddingFailedPrefix \o IndexErrorMessage] >>]
  ELSE [value |-> <<resp.data[Len(resp.data)].embedding>>, exc |-> <<>>]

\* generate_embedding, lines 51-57: what the response of the POST becomes
EmbeddingOutcome(resp) ==
  IF RaisesForStatus(resp.status)
  THEN [value |-> <<>>,
        exc |-> << [type |-> "Exception",
                    msg |-> EmbeddingFailedPrefix \o resp.error] >>]
  ELSE IF resp.data = <<>>
  THEN [value |-> <<>>,
        exc |-> << [type |-> "Exception",
                    msg |-> EmbeddingFailedPrefix \o IndexErrorMessage] >>]
  ELSE [value |-> <<resp.data[1].embedding>>, exc |-> <<>>]

\* search_documents, lines 116-120: VectorizedQuery(...)
VectorizedQuery(vector, k) ==
  [vector |-> vector, k_nearest_neighbors |-> k, fields |-> "contentVector"]

\* search_documents, lines 135-141 and 162-167: the arguments of a search call
SearchCall(q, vq, filter, k) ==
  [search_text |-> q, vector_queries |-> <<vq>>, select |-> "*",
   filter |-> filter, top |-> k]

\* variant of FallbackFilter: the retry repeats the filter
FallbackFilterKept(filter) == filter

\* search_documents, lines 162-167: the retry passes no filter argument
FallbackFilter(filter) == <<>>

\* variant of FallbackError: the caught exception re-raised as it is
FallbackErrorUnwrapped(exc) == exc

\* search_documents, lines 182-183: raise Exception(f"Search failed: {str(e2)}")
FallbackError(exc) ==
  [type |-> "Exception", msg |-> SearchFailedPrefix \o exc.msg]

\* variant of HandbookEarlyReturn: the emptiness test left out
HandbookEarlyReturnNever(rs) == <<>>

\* query_handbook, lines 190-191: the early return on an empty result list
HandbookEarlyReturn(rs) == IF rs = <<>> THEN <<NoInfoMessage>> ELSE <<>>

\* variant of rephrase_with_chat_model: a failure yields the empty string
rephrase_with_chat_model_blank(content, resp) ==
  IF RaisesForStatus(resp.status) \/ resp.choices = <<>>
  THEN <<>>
  ELSE Strip(resp.choices[1])

\* rephrase_with_chat_model, lines 98-108: what the response becomes
rephrase_with_chat_model(content, resp) ==
  IF RaisesForStatus(resp.status) \/ resp.choices = <<>>
  THEN content
  ELSE Strip(resp.choices[1])

\* variant of HandbookCatch: the exception is let through
HandbookCatchReraises(exc) == [ret |-> <<>>, raised |-> <<exc>>]

\* query_handbook, lines 250-251: the catch-all at the top level
HandbookCatch(exc) ==
  [ret |-> <<ErrorPrefix \o exc.msg>>, raised |-> <<>>]

\* query_handbook is called (line 185); control enters search_documents and
\* generate_embedding
QueryHandbook ==
  /\ pc = "idle"
  /\ \E q \in Queries : query' = q
  /\ \E k \in Tops : top' = k
  /\ pc' = "generate_embedding"
  /\ UNCHANGED << embedVars, vector_query, search_filter, searchVars,
                  chatVars, ret, raised, exVars >>

\* generate_embedding (lines 37-57) and the lines of search_documents that
\* follow it up to the first search call (lines 113-132)
GenerateEmbedding ==
  /\ pc = "generate_embedding"
  /\ IF query = <<>>
     THEN /\ geExc' = << [type |-> "ValueError", msg |-> EmptyTextMessage] >>
          /\ UNCHANGED << embedCalls, embedResp, query_embedding,
                          vector_query, search_filter >>
          /\ pc' = "fallback"
     ELSE \E resp \in EmbedResponses :
            LET out == EmbeddingOutcome(resp) IN
            /\ embedCalls' = embedCalls + 1
            /\ embedResp' = <<resp>>
            /\ geExc' = out.exc
            /\ query_embedding' = out.value
            /\ IF out.exc = <<>>
               THEN /\ vector_query' = <<VectorizedQuery(out.value[1], top)>>
                    /\ search_filter' = SelectFilter(query)
                    /\ pc' = "search"
               ELSE /\ UNCHANGED << vector_query, search_filter >>
                    /\ pc' = "fallback"
  /\ UNCHANGED << query, top, searchVars, chatVars, ret, raised, exVars >>

\* search_documents, lines 135-157: the filtered search and its formatting
SearchFiltered ==
  /\ pc = "search"
  /\ \E resp \in SearchResponses(top) :
       /\ searchLog' = Append(searchLog,
            SearchCall(query, vector_query[1], search_filter, top))
       /\ searchResps' = Append(searchResps, resp)
       /\ IF resp.ok
          THEN /\ results' = <<FormatResults(resp.hits)>>
               /\ pc' = "returned"
          ELSE /\ UNCHANGED results
               /\ pc' = "fallback"
  /\ UNCHANGED << query, top, embedVars, vector_query, search_filter, e2,
                  sdExc, chatVars, ret, raised, exVars >>

\* search_documents, lines 159-183: the except branch, one search without
\* the filter; reading the unbound vector_query raises before any call
SearchFallback ==
  /\ pc = "fallback"
  /\ IF vector_query = <<>>
     THEN \E m \in UnboundLocalMessages :
            /\ e2' = << [type |-> "UnboundLocalError", msg |-> m] >>
            /\ sdExc' = << FallbackError(e2'[1]) >>
            /\ UNCHANGED << searchLog, searchResps, results >>
     ELSE \E resp \in SearchResponses(top) :
            /\ searchLog' = Append(searchLog,
                 SearchCall(query, vector_query[1],
                            FallbackFilter(search_filter), top))
            /\ searchResps' = Append(searchResps, resp)
            /\ IF resp.ok
               THEN /\ results' = <<FormatResults(resp.hits)>>
                    /\ UNCHANGED << e2, sdExc >>
               ELSE /\ e2' = << [type |-> "HttpResponseError",
                                 msg |-> resp.error] >>
                    /\ sdExc' = << FallbackError(e2'[1]) >>
                    /\ UNCHANGED results
  /\ pc' = "returned"
  /\ UNCHANGED << query, top, embedVars, vector_query, search_filter,
                  chatVars, ret, raised, exVars >>

\* query_handbook, lines 186-233 and 250-251: after search_documents ends,
\* up to the chat call
QueryHandbookResume ==
  /\ pc = "returned"
  /\ \/ /\ sdExc # <<>>
        /\ ret' = HandbookCatch(sdExc[1]).ret
        /\ raised' = HandbookCatch(sdExc[1]).raised
        /\ pc' = "done"
        /\ UNCHANGED << response, all_content >>
     \/ /\ sdExc = <<>>
        /\ HandbookEarlyReturn(results[1]) # <<>>
        /\ ret' = HandbookEarlyReturn(results[1])
        /\ pc' = "done"
        /\ UNCHANGED << raised, response, all_content >>
     \/ /\ sdExc = <<>>
        /\ HandbookEarlyReturn(results[1]) = <<>>
        /\ response' = <<SelectHeader(query)>>
        /\ all_content' = AllContent(query, results[1])
        /\ pc' = "rephrase"
        /\ UNCHANGED << ret, raised >>
  /\ UNCHANGED << query, top, embedVars, vector_query, search_filter,
                  searchVars, chatCalls, chatResp, exVars >>

\* rephrase_with_chat_model (lines 59-108) and the rest of query_handbook
\* (lines 234-248)
Rephrase ==
  /\ pc = "rephrase"
  /\ \E resp \in ChatResponses :
       /\ chatCalls' = chatCalls + 1
       /\ chatResp' = <<resp>>
       /\ ret' = << response[1]
                    \o rephrase_with_chat_model(
                         \* Join(all_content, "\n\n"), resp)
                         Join(all_content, <<10, 10>>), resp)
                    \o SourcesSection(results[1]) >>
  /\ pc' = "done"
  /\ UNCHANGED << query, top, embedVars, vector_query, search_filter,
                  searchVars, response, all_content, raised, exVars >>

Next ==
  \/ QueryHandbook
  \/ GenerateEmbedding
  \/ SearchFiltered
  \/ SearchFallback
  \/ QueryHandbookResume
  \/ Rephrase

Spec == Init /\ [][Next]_vars

TypeOK ==
  /\ pc \in {"idle", "generate_embedding", "search", "fallback", "returned",
             "rephrase", "done", "extract", "extract_done"}
  /\ embedCalls \in 0..1
  /\ chatCalls \in 0..1
  /\ Len(ret) <= 1

\* ------------------------------ extract_relevant_sentences on its own
\* contents: every string of up to MaxContentLen characters over a letter,
\* a capital letter outside ASCII, a blank and the period: a, U+00C9, ' ', .
\* ExAlphabet == {'a', 201, ' ', '.'}
ExAlphabet == {97, 201, 32, 46}
ExContents == SeqsUpTo(ExAlphabet, MaxContentLen)
\* keyword lists: none, two keywords of which one in capitals, a keyword
\* for the capital letter, a keyword with a blank at its edge, the empty
\* keyword: [], ['A', 'x'], [U+00E9], [' a'], ['']
ExKeywordLists ==
  \* { <<>>, << "A", "x" >>, << <<233>> >>, << " a" >>, << <<>> >> }
  { <<>>, << <<65>>, <<120>> >>, << <<233>> >>, << <<32, 97>> >>, << <<>> >> }

InitExtract ==
  /\ pc = "extract"
  /\ query = <<>>
  /\ top = DefaultTop
  /\ embedCalls = 0
  /\ embedResp = <<>>
  /\ geExc = <<>>
  /\ query_embedding = <<>>
  /\ vector_query = <<>>
  /\ search_filter = <<>>
  /\ searchLog = <<>>
  /\ searchResps = <<>>
  /\ e2 = <<>>
  /\ results = <<>>
  /\ sdExc = <<>>
  /\ response = <<>>
  /\ all_content = <<>>
  /\ chatCalls = 0
  /\ chatResp = <<>>
  /\ ret = <<>>
  /\ raised = <<>>
  /\ exContent \in ExContents
  /\ exKeywords \in ExKeywordLists
  /\ exResult = <<>>

\* extract_relevant_sentences(content, keywords) is called and returns
ExtractRelevantSentences ==
  /\ pc = "extract"
  /\ exResult' = <<extract_relevant_sentences(exContent, exKeywords)>>
  /\ pc' = "extract_done"
  /\ UNCHANGED << query, top, embedVars, vector_query, search_filter,
                  searchVars, chatVars, ret, raised, exContent, exKeywords >>

NextExtract == ExtractRelevantSentences

SpecExtract == InitExtract /\ [][NextExtract]_vars

\* ----------------------------------------------------------- properties
\* vocabulary of the properties
EmbedSucceeded ==
  /\ embedResp # <<>>
  /\ ~RaisesForStatus(embedResp[1].status)
  /\ embedResp[1].data # <<>>
ChatFailed == chatResp # <<>>
              /\ (RaisesForStatus(chatResp[1].status) \/ chatResp[1].choices = <<>>)
SearchDocumentsEnded == pc \in {"returned", "rephrase", "done"}
FirstSearchFailed == Len(searchResps) >= 1 /\ ~searchResps[1].ok
SecondSearchFailed == Len(searchResps) = 2 /\ ~searchResps[2].ok
SecondSearchSucceeded == Len(searchResps) = 2 /\ searchResps[2].ok

\* the header's topic groups in their fixed order
HeaderGroups ==
  << [keywords |-> DataSecurityGroup, header |-> HeaderDataSecurity],
     [keywords |-> VacationGroup, header |-> HeaderVacation],
     [keywords |-> ConfidentialityGroup, header |-> HeaderConfidentiality],
     [keywords |-> RemoteWorkGroup, header |-> HeaderRemoteWork],
     [keywords |-> BenefitsGroup, header |-> HeaderBenefits] >>
MatchingGroups(q) ==
  LET lowered == Lower(q) IN
  { g \in 1..Len(HeaderGroups) :
      \E k \in 1..Len(HeaderGroups[g].keywords) :
        Contains(HeaderGroups[g].keywords[k], lowered) }
FirstMatchHeader(q) ==
  LET matching == MatchingGroups(q) IN
  IF matching = {} THEN GenericHeader(q)
  ELSE HeaderGroups[CHOOSE g \in matching : \A h \in matching : g <= h].header
RawContent(result) ==
  IF "content" \in DOMAIN result THEN result["content"]
  ELSE NoContentAvailable

\* C1: query_handbook never raises: whatever the three services answer, no
\* exception escapes it, every step it reaches has what it reads (the vector
\* query before a search, a result list or an exception after
\* search_documents), the call ends with a string as its return value, and
\* when generate_embedding or search_documents failed that string begins
\* with "Error querying the Contoso Handbook:".
Thm_C1_NeverRaises ==
  /\ raised = <<>>
  /\ pc = "search" => Len(vector_query) = 1
  /\ pc = "returned" => (Len(sdExc) = 1 /\ results = <<>>)
                          \/ (sdExc = <<>> /\ Len(results) = 1)
  /\ pc = "rephrase" => (sdExc = <<>> /\ Len(results) = 1)
  /\ pc = "done" =>
       /\ Len(ret) = 1
       /\ ret[1] # <<>>
       /\ (geExc # <<>> \/ sdExc # <<>>) => StartsWith(ret[1], ErrorPrefix)
Wit_C1_ErrorString ==
  /\ pc = "done"
  /\ embedCalls = 1
  /\ geExc # <<>>
  /\ raised = <<>>
  /\ StartsWith(ret[1], ErrorPrefix \o SearchFailedPrefix)

\* C2: embedding succeeded, the filtered search failed and the unfiltered
\* one succeeded: search_documents does not raise and returns one entry per
\* hit of the unfiltered call, in the service's order, each with the hit's
\* score and its whitelisted fields.
Thm_C2_FallbackResults ==
  (SearchDocumentsEnded /\ EmbedSucceeded /\ FirstSearchFailed
     /\ SecondSearchSucceeded) =>
    LET hits == searchResps[2].hits IN
    /\ sdExc = <<>>
    /\ Len(results) = 1
    /\ Len(results[1]) = Len(hits)
    /\ \A i \in 1..Len(hits) :
         /\ results[1][i]["score"] = hits[i]["@search.score"]
         /\ DOMAIN results[1][i] =
              {"score"} \cup (DOMAIN hits[i] \cap FieldWhitelist)
         /\ \A f \in DOMAIN hits[i] \cap FieldWhitelist :
              results[1][i][f] = hits[i][f]
Wit_C2_FallbackResults ==
  /\ pc = "returned"
  /\ FirstSearchFailed
  /\ SecondSearchSucceeded
  /\ searchLog[1].filter # <<>>
  /\ Len(results[1]) = 2
  /\ results[1][1]["score"] # results[1][2]["score"]

\* C3: search_documents falls back exactly once: a failed first search is
\* followed by one search that differs from it only in having no filter,
\* never by a third; if that one fails too, search_documents raises an
\* exception whose message begins with "Search failed:" and returns nothing.
Thm_C3_FallbackOnce ==
  /\ Len(searchLog) <= 2
  /\ Len(searchLog) = 2 =>
       /\ FirstSearchFailed
       /\ searchLog[2].filter = <<>>
       /\ searchLog[2] = [searchLog[1] EXCEPT !.filter = <<>>]
  /\ (SearchDocumentsEnded /\ FirstSearchFailed) => Len(searchLog) = 2
  /\ (SearchDocumentsEnded /\ FirstSearchFailed /\ SecondSearchFailed) =>
       /\ Len(sdExc) = 1
       /\ StartsWith(sdExc[1].msg, SearchFailedPrefix)
       /\ results = <<>>
Wit_C3_BothFailed ==
  /\ pc = "returned"
  /\ FirstSearchFailed
  /\ SecondSearchFailed
  /\ searchLog[1].filter # <<>>
  /\ searchLog[2].filter = <<>>
  /\ sdExc # <<>>

\* C4: generate_embedding sends exactly one request for a non-empty text and
\* on success returns data[0].embedding as it is; for the empty text it
\* raises the invalid-input error and sends nothing.
Thm_C4_OneEmbeddingCall ==
  /\ embedCalls <= 1
  /\ pc \notin {"idle", "generate_embedding", "extract", "extract_done"} =>
       /\ query = <<>> =>
            /\ embedCalls = 0
            /\ embedResp = <<>>
            /\ Len(geExc) = 1
            /\ geExc[1].type = "ValueError"
       /\ query # <<>> =>
            /\ embedCalls = 1
            /\ Len(embedResp) = 1
            /\ EmbedSucceeded =>
                 /\ geExc = <<>>
                 /\ query_embedding = <<embedResp[1].data[1].embedding>>
                 /\ vector_query[1].vector = embedResp[1].data[1].embedding
Wit_C4_FirstOfTwo ==
  /\ pc = "search"
  /\ query # <<>>
  /\ embedCalls = 1
  /\ Len(embedResp[1].data) = 2
  /\ query_embedding = << <<3, 4>> >>

\* C5: the search returned results and the chat call failed (HTTP error or
\* malformed body): query_handbook raises nothing and returns, not the error
\* string, but the selected header, then the content blocks as they were
\* before rephrasing, joined by blank lines, then the Sources section.
Thm_C5_RephraseFailureKeepsContent ==
  (pc = "done" /\ ChatFailed) =>
    /\ results # <<>> /\ results[1] # <<>>
    /\ raised = <<>>
    /\ ~StartsWith(ret[1], ErrorPrefix)
    /\ ret[1] = response[1]
                  \* \o Join(all_content, "\n\n")
                  \o Join(all_content, <<10, 10>>)
                  \o SourcesSection(results[1])
    /\ Len(all_content) = Len(results[1])
Wit_C5_MalformedChat ==
  /\ pc = "done"
  /\ ChatFailed
  /\ ~RaisesForStatus(chatResp[1].status)
  /\ Len(all_content) = 2
  /\ all_content[1] # all_content[2]

\* C6: the header is first-match-wins over data security, vacation/PTO,
\* confidentiality, remote work, benefits: it is the header of the first
\* group in that order with a keyword inside the lowercased query, wherever
\* the keywords stand in the query, and the generic header naming the query
\* exactly when no group matches.
Thm_C6_FirstMatchWins ==
  /\ pc = "rephrase" =>
       LET matching == MatchingGroups(query) IN
       /\ response = <<FirstMatchHeader(query)>>
       /\ response = <<GenericHeader(query)>> <=> matching = {}
       \* /\ \A w1 \in { w \in QueryWords : StartsWith(query, w \o " ") } :
       /\ \A w1 \in { w \in QueryWords : StartsWith(query, w \o <<32>>) } :
            LET w2 == SubSeq(query, Len(w1) + 2, Len(query)) IN
            matching # {} =>
              \* response = <<FirstMatchHeader(w2 \o " " \o w1)>>
              response = <<FirstMatchHeader(w2 \o <<32>> \o w1)>>
  /\ (pc = "done" /\ chatResp # <<>>) =>
       /\ Len(response) = 1
       /\ StartsWith(ret[1], response[1])
Wit_C6_VacationBeforeSecurity ==
  /\ pc = "done"
  /\ chatResp # <<>>
  \* /\ query = "laptop data security"
  /\ query = <<108, 97, 112, 116, 111, 112, 32, 100, 97, 116, 97, 32, 115, 101, 99,
       117, 114, 105, 116, 121>>
  /\ StartsWith(ret[1], HeaderDataSecurity)

\* C7 as stated: each content block is narrowed by
\* extract_relevant_sentences for exactly the queries that get the Data
\* Security header or the Vacation and Time Off header, and is the result's
\* content as it is for every other query.
Orig_C7_NarrowedIffHeader ==
  pc = "rephrase" =>
    \A i \in 1..Len(all_content) :
      LET content == RawContent(results[1][i]) IN
      all_content[i] =
        IF SelectHeader(query) = HeaderDataSecurity
        THEN extract_relevant_sentences(content, security_keywords)
        ELSE IF SelectHeader(query) = HeaderVacation
        THEN extract_relevant_sentences(content, vacation_keywords)
        ELSE content

\* C7 amended: a content block is narrowed with the security keywords when
\* the lowercased query contains "data security" or "security policy",
\* otherwise with the vacation keywords when it contains "vacation" or
\* "pto", and is the result's content as it is for every other query; every
\* narrowed query gets the Data Security or Vacation header, but not every
\* query with one of these headers is narrowed.
Thm_C7_NarrowedByOwnTests ==
  pc = "rephrase" =>
    LET ql == Lower(query)
        \* sec == Contains("data security", ql)
        sec == Contains(<<100, 97, 116, 97, 32, 115, 101, 99, 117, 114, 105, 116, 121>>, ql)
                 \* \/ Contains("security policy", ql)
                 \/ Contains(<<115, 101, 99, 117, 114, 105, 116, 121, 32, 112, 111, 108, 105, 99, 121>>, ql)
        \* vac == Contains("vacation", ql) \/ Contains("pto", ql)
        vac == Contains(<<118, 97, 99, 97, 116, 105, 111, 110>>, ql) \/ Contains(<<112, 116, 111>>, ql)
    IN /\ Len(all_content) = Len(results[1])
       /\ \A i \in 1..Len(all_content) :
            LET content == RawContent(results[1][i]) IN
            all_content[i] =
              IF sec
              THEN extract_relevant_sentences(content, security_keywords)
              ELSE IF vac
              THEN extract_relevant_sentences(content, vacation_keywords)
              ELSE content
       /\ (sec \/ vac) =>
            SelectHeader(query) \in {HeaderDataSecurity, HeaderVacation}
Wit_C7_HeaderWithoutNarrowing ==
  /\ pc = "rephrase"
  \* /\ query = "leave"
  /\ query = <<108, 101, 97, 118, 101>>
  /\ SelectHeader(query) = HeaderVacation
  /\ all_content[1] = RawContent(results[1][1])
  /\ all_content[1] #
       extract_relevant_sentences(all_content[1], vacation_keywords)

\* C8: when search_documents returns an empty list, query_handbook returns
\* exactly "No relevant information found in the Contoso Handbook.",
\* whatever the query.
Thm_C8_NoResultsMessage ==
  (pc = "done" /\ results = << <<>> >>) =>
    /\ ret = <<NoInfoMessage>>
    /\ chatCalls = 0
Wit_C8_NoResults ==
  /\ pc = "done"
  /\ results = << <<>> >>
  \* /\ query = "data security"
  /\ query = <<100, 97, 116, 97, 32, 115, 101, 99, 117, 114, 105, 116, 121>>
  /\ ret = <<NoInfoMessage>>

\* vocabulary of C9: the pieces between the periods of the content, the
\* sentences (the trimmed pieces), the sentences that contain a keyword with
\* case ignored, the first three of them, and their join
\* ExPieces == Split(exContent, '.')
ExPieces == Split(exContent, 46)
ExSentences ==
  LET pieces == ExPieces IN [i \in 1..Len(pieces) |-> Strip(pieces[i])]
ExMatchingIn(sentences) ==
  LET lowered == [j \in 1..Len(exKeywords) |-> Lower(exKeywords[j])] IN
  { i \in 1..Len(sentences) :
      \E s \in {Lower(sentences[i])} :
        \E j \in 1..Len(lowered) : Contains(lowered[j], s) }
ExMatching == ExMatchingIn(ExSentences)
ExKept(matching) ==
  { i \in matching : Cardinality({ j \in matching : j < i }) < 3 }
RECURSIVE ExExpected(_, _)
ExExpected(sentences, S) ==
  IF S = {} THEN <<>>
  ELSE LET i == CHOOSE x \in S : \A y \in S : x <= y
       IN sentences[i]
            \* \o (IF S = {i} THEN "." ELSE ". ")
            \o (IF S = {i} THEN <<46>> ELSE <<46, 32>>)
            \o ExExpected(sentences, S \ {i})
\* C9: extract_relevant_sentences splits the content at periods and trims
\* each piece; if some piece contains a keyword, case ignored, the result is
\* the first three such pieces (all of them when fewer), in their order,
\* joined by ". " and closed by a period; otherwise it is the content as it
\* was.
Thm_C9_FirstThreeSentences ==
  pc = "extract_done" =>
    LET pieces == ExPieces
        sentences == ExSentences
        matching == ExMatchingIn(sentences)
    \* IN /\ Join(pieces, ".") = exContent
    IN /\ Join(pieces, <<46>>) = exContent
       \* /\ \A i \in 1..Len(pieces) : ~Contains(".", pieces[i])
       /\ \A i \in 1..Len(pieces) : ~Contains(<<46>>, pieces[i])
       /\ \A i \in 1..Len(pieces) :
            /\ sentences[i] = <<>>
                 \/ (sentences[i][1] \notin Whitespace
                       /\ sentences[i][Len(sentences[i])] \notin Whitespace)
            /\ \E l \in 0..Len(pieces[i]) :
                 /\ l + Len(sentences[i]) <= Len(pieces[i])
                 /\ SubSeq(pieces[i], l + 1, l + Len(sentences[i]))
                      = sentences[i]
                 /\ \A x \in (1..l) \cup ((l + Len(sentences[i]) + 1)
                                            ..Len(pieces[i])) :
                      pieces[i][x] \in Whitespace
       /\ IF matching = {}
          THEN exResult = <<exContent>>
          ELSE exResult = <<ExExpected(sentences, ExKept(matching))>>
Wit_C9_FourMatchThreeKept ==
  /\ pc = "extract_done"
  /\ Cardinality(ExMatching) = 4
  \* /\ exContent = "a.a.a.a"
  /\ exContent = <<97, 46, 97, 46, 97, 46, 97>>
  \* /\ exKeywords = << "A", "x" >>
  /\ exKeywords = << <<65>>, <<120>> >>
  \* /\ exResult = << "a. a. a." >>
  /\ exResult = << <<97, 46, 32, 97, 46, 32, 97, 46>> >>

\* C10 as stated: when generate_embedding failed, search_documents ends with
\* the reference error itself, not with the "Search failed:" exception of
\* two failed searches, and no search call is issued.
Orig_C10_EndsWithReferenceError ==
  (SearchDocumentsEnded /\ geExc # <<>>) =>
    /\ searchLog = <<>>
    /\ Len(sdExc) = 1
    /\ sdExc[1].type = "UnboundLocalError"
    /\ ~StartsWith(sdExc[1].msg, SearchFailedPrefix)

\* C10 amended: when generate_embedding failed, the fallback branch fails on
\* the unbound vector_query before any search call is issued, and
\* search_documents ends with the same kind of exception as after two failed
\* searches: an Exception whose message is "Search failed: " followed by the
\* reference error's message.
Thm_C10_ReferenceErrorWrapped ==
  (SearchDocumentsEnded /\ geExc # <<>>) =>
    /\ searchLog = <<>>
    /\ results = <<>>
    /\ Len(e2) = 1
    /\ e2[1].type = "UnboundLocalError"
    /\ Len(sdExc) = 1
    /\ sdExc[1].type = "Exception"
    /\ sdExc[1].msg = SearchFailedPrefix \o e2[1].msg
Wit_C10_EmbeddingFailed ==
  /\ pc = "returned"
  /\ embedCalls = 1
  /\ geExc # <<>>
  /\ geExc[1].type = "Exception"
  /\ searchLog = <<>>
  /\ sdExc # <<>>
  /\ StartsWith(sdExc[1].msg, SearchFailedPrefix)

====
